---- MODULE Spec2Model ----
(***************************************************************************)
(* A model of buildutils/src/utils.ts: workspace discovery                 *)
(* (getLernaPaths), the dependency-graph builder (getPackageGraph with     *)
(* requirePackage) and the JSON file helpers (readJSONFile,                *)
(* writeJSONFile).                                                         *)
(***************************************************************************)
EXTENDS Integers, Sequences, FiniteSets, TLC

VARIABLES
  disk,      \* the file system: base manifest, lerna.json, package manifests
  cache,     \* Node's require cache: file name -> exports of the loaded file
  registry,  \* what node_modules holds, as far as a run has looked at it
  calls,     \* number of invocations started so far
  pc,        \* position inside getPackageGraph
  paths,     \* getPackageGraph: const paths
  locals,    \* getPackageGraph: const locals
  graph,     \* getPackageGraph: const graph (a DepGraph)
  cur,       \* index in Object.keys(locals) of the package being processed
  todo,      \* dependency names of that package still to be processed
  req,       \* the last requirePackage call and how it ended
  result,    \* what the last finished invocation gave its caller
  prev,      \* what the invocation before that gave its caller
  jfile,     \* the JSON file writeJSONFile and readJSONFile work on
  jdata,     \* the data writeJSONFile is given
  jrets,     \* what the writeJSONFile calls returned, in order
  jwrites,   \* number of fs.writeFileSync calls made
  jread      \* what readJSONFile gave after the first write

gvars == <<disk, cache, registry, calls, pc, paths, locals, graph, cur, todo,
           req, result, prev>>

jvars == <<jfile, jdata, jrets, jwrites, jread>>

vars == <<gvars, jvars>>

---------------------------------------------------------------------------
(* Bounds of the model. *)

\* longest glob list of a workspaces / lerna declaration
MaxGlobs == 2
\* largest number of dependencies one manifest declares
MaxDeps == 2
\* number of invocations in one process
MaxCalls == 2
\* longest array inside a JSON value
MaxItems == 1
\* number of writeJSONFile calls in a row
MaxWrites == 2

---------------------------------------------------------------------------
(* Generic helpers. *)

SeqsUpTo(S, n) == UNION {[1..k -> S] : k \in 0..n}

Range(s) == {s[i] : i \in DOMAIN s}

RECURSIVE Flatten(_)
Flatten(ss) == IF ss = <<>> THEN <<>> ELSE Head(ss) \o Flatten(Tail(ss))

---------------------------------------------------------------------------
(* The file system.                                                        *)

\* directories a workspace glob can match, in glob.sync's (sorted) order
Candidates == <<"packages/a", "packages/b">>

\* the two paths getPackageGraph appends
MockPaths == <<"./jupyterlab/tests/mock_packages/extension",
               "./jupyterlab/tests/mock_packages/mimeextension">>

PkgPaths == Range(Candidates) \cup Range(MockPaths)

Patterns == {"packages/*", "packages/a"}

Matches(pattern, p) ==
  IF pattern = "packages/*" THEN p \in {"packages/a", "packages/b"}
  ELSE p = pattern

\* A declaration file (package.json of the base directory, lerna.json):
\*   st: "absent" | "malformed" | "ok"
\*   ws: "none"   no workspaces / packages field
\*       "array"  workspaces: [globs]   (lerna.json: packages: [globs])
\*       "object" workspaces: {packages: [globs]}
\*       "bare"   workspaces: {} without a packages array
NoDecl(st) == [st |-> st, ws |-> "none", globs |-> <<>>]

GlobLists == SeqsUpTo(Patterns, MaxGlobs)

BaseStates ==
  {NoDecl("absent"), NoDecl("malformed"), NoDecl("ok"),
   [st |-> "ok", ws |-> "bare", globs |-> <<>>]}
  \cup {[st |-> "ok", ws |-> w, globs |-> g] :
          w \in {"array", "object"}, g \in GlobLists}

LernaStates ==
  {NoDecl("absent"), NoDecl("malformed"), NoDecl("ok")}
  \cup {[st |-> "ok", ws |-> "array", globs |-> g] : g \in GlobLists}

\* A package path and its package.json:
\*   st: "nodir"      nothing exists at the path
\*       "notdir"     a plain file exists at the path
\*       "absent"     a directory without package.json
\*       "malformed"  a directory whose package.json cannot be parsed
\*       "ok"         a directory whose package.json holds name and deps
NoManifest(st) == [st |-> st, name |-> "", deps |-> {}]

---------------------------------------------------------------------------
(* require(): Node loads a JSON file once and serves it from its cache     *)
(* afterwards; a file that is missing or fails to load leaves no entry.    *)

NoExports == NoDecl("absent")

CacheAfterFailedLoadKeepsEntry(c, file) == (file :> NoDecl("ok")) @@ c

CacheAfterFailedLoad(c, file) == c

Require(c, file, content) ==
  IF file \in DOMAIN c
    THEN [threw |-> "", exports |-> c[file], cache |-> c]
  ELSE IF content.st = "absent"
    THEN [threw |-> "MODULE_NOT_FOUND", exports |-> NoExports, cache |-> c]
  ELSE IF content.st = "malformed"
    THEN [threw |-> "SyntaxError", exports |-> NoExports,
          cache |-> CacheAfterFailedLoad(c, file)]
  ELSE [threw |-> "", exports |-> content, cache |-> (file :> content) @@ c]

---------------------------------------------------------------------------
(* getLernaPaths                                                           *)

\* catch (e): MODULE_NOT_FOUND becomes the configuration error, anything
\* else is thrown again
CatchRequire(code) ==
  IF code = "MODULE_NOT_FOUND" THEN "ConfigurationError" ELSE code

\* packages = baseConfig.workspaces.packages || baseConfig.workspaces, or
\* baseConfig.packages of lerna.json; a value that is no array cannot be
\* iterated by the for ... of loop
PackagesOf(exports, c) ==
  [err |-> IF exports.ws \in {"array", "object"} THEN "" ELSE "TypeError",
   packages |-> exports.globs,
   cache |-> c]

Failed(code, c) == [err |-> code, packages |-> <<>>, cache |-> c]

LoadPackagesLernaOptional(c, d) ==
  LET r1 == Require(c, "package.json", d.base) IN
  IF r1.threw # "" THEN Failed(CatchRequire(r1.threw), r1.cache)
  ELSE IF r1.exports.ws # "none" THEN PackagesOf(r1.exports, r1.cache)
  ELSE LET r2 == Require(r1.cache, "lerna.json", d.lerna) IN
    IF r2.threw = "MODULE_NOT_FOUND"
      THEN [err |-> "", packages |-> <<>>, cache |-> r2.cache]
    ELSE IF r2.threw # "" THEN Failed(CatchRequire(r2.threw), r2.cache)
    ELSE PackagesOf(r2.exports, r2.cache)

\* the try block: which glob list is used, or which error leaves it
LoadPackages(c, d) ==
  LET r1 == Require(c, "package.json", d.base) IN
  IF r1.threw # "" THEN Failed(CatchRequire(r1.threw), r1.cache)
  ELSE IF r1.exports.ws # "none" THEN PackagesOf(r1.exports, r1.cache)
  ELSE LET r2 == Require(r1.cache, "lerna.json", d.lerna) IN
    IF r2.threw # "" THEN Failed(CatchRequire(r2.threw), r2.cache)
    ELSE PackagesOf(r2.exports, r2.cache)

\* glob.sync(path.join(basePath, config))
Glob(d, pattern) ==
  SelectSeq(Candidates,
            LAMBDA p : Matches(pattern, p) /\ d.manifest[p].st # "nodir")

\* paths = paths.concat(glob.sync(...)) for each config
ExpandGlobs(d, packages) ==
  Flatten([i \in DOMAIN packages |-> Glob(d, packages[i])])

\* fs.existsSync(path.join(pkgPath, 'package.json'))
ExistsManifest(d, p) == d.manifest[p].st \in {"malformed", "ok"}

FilterManifestsKeepsAll(d, ps) == ps

FilterManifests(d, ps) == SelectSeq(ps, LAMBDA p : ExistsManifest(d, p))

getLernaPaths(c, d) ==
  LET l == LoadPackages(c, d) IN
  IF l.err # ""
    THEN [kind |-> l.err, paths |-> <<>>, cache |-> l.cache]
    ELSE [kind |-> "ok",
          paths |-> FilterManifests(d, ExpandGlobs(d, l.packages)),
          cache |-> l.cache]

---------------------------------------------------------------------------
(* readJSONFile of a package.json, as getPackageGraph uses it              *)

LocalNames == {"A", "B"}
DepNames == {"A", "B", "X"}

DepSets == {s \in SUBSET DepNames : Cardinality(s) <= MaxDeps}

Manifests ==
  {[st |-> "ok", name |-> n, deps |-> ds] : n \in LocalNames, ds \in DepSets}

\* what a node of the graph carries: a manifest and where it was read from
\*   via: "local" (at: the package path), "rel" (at: the parent module the
\*   resolution started from), "top" (resolved by name)
Payload(name, deps, via, at) ==
  [name |-> name, deps |-> deps, via |-> via, at |-> at]

readManifest(d, p) ==
  IF d.manifest[p].st = "ok"
    THEN [threw |-> FALSE,
          data |-> Payload(d.manifest[p].name, d.manifest[p].deps, "local", p)]
    ELSE [threw |-> TRUE, data |-> Payload("", {}, "local", p)]

---------------------------------------------------------------------------
(* locals: a JavaScript object, its keys in insertion order                *)

EmptyMap == [x \in {} |-> x]

NoLocals == [keys |-> <<>>, data |-> EmptyMap]

\* locals[data.name] = data
SetLocal(l, data) ==
  [keys |-> IF data.name \in DOMAIN l.data THEN l.keys
            ELSE Append(l.keys, data.name),
   data |-> (data.name :> data) @@ l.data]

RECURSIVE GatherLocalsAborting(_, _, _)
GatherLocalsAborting(d, ps, l) ==
  IF ps = <<>> THEN l
  ELSE LET r == readManifest(d, Head(ps)) IN
       IF r.threw THEN l
       ELSE GatherLocalsAborting(d, Tail(ps), SetLocal(l, r.data))

\* paths.forEach(pkgPath => { try { data = readJSONFile(...) }
\*                            catch (e) { console.error(e); return; }
\*                            locals[data.name] = data; })
RECURSIVE GatherLocals(_, _, _)
GatherLocals(d, ps, l) ==
  IF ps = <<>> THEN l
  ELSE LET r == readManifest(d, Head(ps)) IN
       GatherLocals(d, Tail(ps), IF r.threw THEN l ELSE SetLocal(l, r.data))

---------------------------------------------------------------------------
(* DepGraph (package dependency-graph), as far as getPackageGraph uses it: *)
(* nodes is a map from name to payload, out the outgoingEdges arrays.      *)

NewGraph == [nodes |-> EmptyMap, out |-> EmptyMap]

hasNode(g, n) == n \in DOMAIN g.nodes

\* addNode keeps an existing node as it is
addNode(g, n, data) ==
  IF hasNode(g, n) THEN g
  ELSE [nodes |-> (n :> data) @@ g.nodes, out |-> (n :> <<>>) @@ g.out]

addDependencyReversed(g, from, to) ==
  IF ~hasNode(g, from) \/ ~hasNode(g, to)
    THEN [threw |-> TRUE, graph |-> g]
  ELSE IF from \in Range(g.out[to])
    THEN [threw |-> FALSE, graph |-> g]
  ELSE [threw |-> FALSE,
        graph |-> [g EXCEPT !.out[to] = Append(@, from)]]

\* addDependency throws unless both nodes exist, and adds an edge once
addDependency(g, from, to) ==
  IF ~hasNode(g, from) \/ ~hasNode(g, to)
    THEN [threw |-> TRUE, graph |-> g]
  ELSE IF to \in Range(g.out[from])
    THEN [threw |-> FALSE, graph |-> g]
  ELSE [threw |-> FALSE,
        graph |-> [g EXCEPT !.out[from] = Append(@, to)]]

Nodes(g) == DOMAIN g.nodes

Edges(g) ==
  UNION {{<<f, g.out[f][i]>> : i \in DOMAIN g.out[f]} : f \in DOMAIN g.out}

---------------------------------------------------------------------------
(* requirePackage and node_modules                                         *)

\* A run learns about node_modules by asking: whether a parent module
\* resolves (parent), whether <module>/package.json resolves from a parent's
\* location (rel) and whether it resolves by name from this file (top).
\* "?" is a fact no call has looked at yet; a fact never changes once known.
Facts == {"ok", "fail"}

NothingKnown ==
  [parent |-> [p \in LocalNames |-> "?"],
   rel |-> [pd \in LocalNames \X DepNames |-> "?"],
   top |-> [m \in DepNames |-> "?"]]

Choices(f) == IF f = "?" THEN Facts ELSE {f}

\* the registries in which everything requirePackage(p, m) can depend on
\* is known: whether p resolves; if it does, whether m resolves from it; and
\* whether m resolves by name, once one of the two has failed
Inspect(reg, p, m) ==
  UNION {
    UNION {
      {[parent |-> [reg.parent EXCEPT ![p] = pa],
        rel |-> [reg.rel EXCEPT ![<<p, m>>] = r],
        top |-> [reg.top EXCEPT ![m] = t]] :
         t \in IF pa = "fail" \/ r = "fail"
                 THEN Choices(reg.top[m]) ELSE {reg.top[m]}} :
      r \in IF pa = "ok" THEN Choices(reg.rel[<<p, m>>])
                         ELSE {reg.rel[<<p, m>>]}} :
    pa \in Choices(reg.parent[p])}

\* the manifest of a package installed in node_modules: it has dependencies
\* of its own.  (require caches these manifests as well; node_modules does
\* not change, so a cached manifest is the one on disk.)
Installed(m, via, at) == Payload(m, {"Z"}, via, at)

Thrown == [threw |-> TRUE, exports |-> Payload("", {}, "", "")]

requirePackageAlwaysFallsBack(reg, parentModule, module) ==
  IF reg.parent[parentModule] = "ok" /\ reg.rel[<<parentModule, module>>] = "ok"
    THEN [threw |-> FALSE, exports |-> Installed(module, "rel", parentModule)]
  ELSE IF reg.top[module] = "ok"
    THEN [threw |-> FALSE, exports |-> Installed(module, "top", "")]
  ELSE Thrown

requirePackage(reg, parentModule, module) ==
  IF reg.parent[parentModule] # "ok"
    \* catch { return require(packagePath); }
    THEN IF reg.top[module] = "ok"
           THEN [threw |-> FALSE, exports |-> Installed(module, "top", "")]
           ELSE Thrown
  \* require.resolve(packagePath, { paths: [parentModulePath] })
  ELSE IF reg.rel[<<parentModule, module>>] = "ok"
    THEN [threw |-> FALSE, exports |-> Installed(module, "rel", parentModule)]
  ELSE Thrown

---------------------------------------------------------------------------
(* JSON values and JSON text                                               *)

\* A value is null, a number, an array or an object; an object keeps its
\* keys in insertion order (keys[i] holds items[i]).
Null == [t |-> "null", v |-> "null", keys |-> <<>>, items |-> <<>>]
Num(n) == [t |-> "num", v |-> n, keys |-> <<>>, items |-> <<>>]
Arr(items) == [t |-> "arr", v |-> "", keys |-> <<>>, items |-> items]
Obj(keys, items) == [t |-> "obj", v |-> "", keys |-> keys, items |-> items]

EmptyObject == Obj(<<>>, <<>>)

Keys == {"a", "b"}

Distinct(s) == \A i, j \in DOMAIN s : s[i] = s[j] => i = j

KeyLists == {ks \in SeqsUpTo(Keys, Cardinality(Keys)) : Distinct(ks)}

Scalars == {Null, Num("1")}

ArraysOf(V) == {Arr(s) : s \in SeqsUpTo(V, MaxItems)}

ObjectsOf(V) ==
  UNION {{Obj(ks, vs) : vs \in [1..Len(ks) -> V]} : ks \in KeyLists}

FlatValues == Scalars \cup ArraysOf(Scalars) \cup ObjectsOf(Scalars)

\* the values of type JSONObject that writeJSONFile is given
JSONObjects == ObjectsOf(FlatValues)

\* Text is a sequence of tokens: the punctuation, "null", "1", the keys, and
\* "\n" for the white space of the indented layout.
RECURSIVE Join(_)
Join(parts) ==
  IF parts = <<>> THEN <<>>
  ELSE IF Len(parts) = 1 THEN parts[1]
  ELSE parts[1] \o <<",", "\n">> \o Join(Tail(parts))

\* JSON.stringify(value, null, 2)
RECURSIVE Stringify(_)
Stringify(v) ==
  IF v.t = "arr" THEN
    IF v.items = <<>> THEN <<"[", "]">>
    ELSE <<"[", "\n">>
         \o Join([i \in DOMAIN v.items |-> Stringify(v.items[i])])
         \o <<"\n", "]">>
  ELSE IF v.t = "obj" THEN
    IF v.keys = <<>> THEN <<"{", "}">>
    ELSE <<"{", "\n">>
         \o Join([i \in DOMAIN v.keys |->
                    <<v.keys[i], ":">> \o Stringify(v.items[i])])
         \o <<"\n", "}">>
  ELSE <<v.v>>

Unparsed == [ok |-> FALSE, val |-> Null, rest |-> <<>>]

Parsed(v, rest) == [ok |-> TRUE, val |-> v, rest |-> rest]

\* obj[key] = value while parsing: a repeated key keeps its place and takes
\* the later value
SetMember(o, k, v) ==
  IF \E i \in DOMAIN o.keys : o.keys[i] = k
    THEN Obj(o.keys, [i \in DOMAIN o.keys |->
                        IF o.keys[i] = k THEN v ELSE o.items[i]])
    ELSE Obj(Append(o.keys, k), Append(o.items, v))

RECURSIVE ParseValue(_), ParseItems(_, _), ParseMembers(_, _)

ParseValue(ts) ==
  IF ts = <<>> THEN Unparsed
  ELSE LET h == Head(ts)
           r == Tail(ts)
       IN IF h = "null" THEN Parsed(Null, r)
          ELSE IF h = "1" THEN Parsed(Num(h), r)
          ELSE IF h = "[" THEN
            IF r # <<>> /\ Head(r) = "]" THEN Parsed(Arr(<<>>), Tail(r))
            ELSE ParseItems(r, <<>>)
          ELSE IF h = "{" THEN
            IF r # <<>> /\ Head(r) = "}" THEN Parsed(EmptyObject, Tail(r))
            ELSE ParseMembers(r, EmptyObject)
          ELSE Unparsed

ParseItems(ts, acc) ==
  LET e == ParseValue(ts) IN
  IF ~e.ok \/ e.rest = <<>> THEN Unparsed
  ELSE IF Head(e.rest) = "]" THEN Parsed(Arr(Append(acc, e.val)), Tail(e.rest))
  ELSE IF Head(e.rest) = "," THEN ParseItems(Tail(e.rest), Append(acc, e.val))
  ELSE Unparsed

ParseMembers(ts, o) ==
  IF Len(ts) < 2 \/ ts[1] \notin Keys \/ ts[2] # ":" THEN Unparsed
  ELSE LET e == ParseValue(Tail(Tail(ts))) IN
    IF ~e.ok \/ e.rest = <<>> THEN Unparsed
    ELSE IF Head(e.rest) = "}"
      THEN Parsed(SetMember(o, ts[1], e.val), Tail(e.rest))
    ELSE IF Head(e.rest) = ","
      THEN ParseMembers(Tail(e.rest), SetMember(o, ts[1], e.val))
    ELSE Unparsed

\* JSON.parse(text): white space is skipped, and nothing may follow the value
JSONParse(text) ==
  LET e == ParseValue(SelectSeq(text, LAMBDA tok : tok # "\n")) IN
  IF e.ok /\ e.rest = <<>> THEN e ELSE Unparsed

\* JSONExt.deepEqual of @lumino/coreutils: primitives by ===, arrays item by
\* item, objects key by key whatever the order of their keys
RECURSIVE deepEqual(_, _)
deepEqual(x, y) ==
  IF x.t \in {"null", "num"} \/ y.t \in {"null", "num"}
    THEN x.t = y.t /\ x.v = y.v
  ELSE IF x.t # y.t THEN FALSE
  ELSE IF x.t = "arr"
    THEN /\ Len(x.items) = Len(y.items)
         /\ \A i \in DOMAIN x.items : deepEqual(x.items[i], y.items[i])
  ELSE /\ Range(x.keys) = Range(y.keys)
       /\ \A i \in DOMAIN x.keys : \A j \in DOMAIN y.keys :
            x.keys[i] = y.keys[j] => deepEqual(x.items[i], y.items[j])

---------------------------------------------------------------------------
(* readJSONFile and writeJSONFile                                          *)

\* a file: whether it exists, and its text
NoFile == [exists |-> FALSE, text |-> <<>>]

File(text) == [exists |-> TRUE, text |-> text]

\* try { return JSON.parse(fs.readFileSync(filePath, 'utf8')); }
\* catch (e) { throw `Cannot read JSON for path ...`; }
readJSONFile(f) ==
  IF ~f.exists THEN [threw |-> TRUE, value |-> Null]
  ELSE LET e == JSONParse(f.text) IN
       IF e.ok THEN [threw |-> FALSE, value |-> e.val]
       ELSE [threw |-> TRUE, value |-> Null]

\* sortObjByKey(data) is handed to JSON.stringify as its replacer; for an
\* object that is neither a function nor an array, and stringify ignores it
TextOf(data) == Stringify(data) \o <<"\n">>

\* let orig = {}; try { orig = readJSONFile(filePath); } catch (e) { }
OrigOf(f) == IF readJSONFile(f).threw THEN EmptyObject ELSE readJSONFile(f).value

writeJSONFile(f, data) ==
  IF ~deepEqual(data, OrigOf(f))
    THEN [file |-> File(TextOf(data)), ret |-> TRUE, wrote |-> 1]
    ELSE [file |-> f, ret |-> FALSE, wrote |-> 0]


---------------------------------------------------------------------------
(* getPackageGraph, step by step                                           *)

\* What an invocation gives its caller: a graph, as its nodes with their
\* payloads and its set of edges, or an error.
NoGraph == [nodes |-> EmptyMap, edges |-> {}]

NoResult == [kind |-> "none", err |-> "", graph |-> NoGraph]

NoReq == [called |-> FALSE, parent |-> "", module |-> "", threw |-> FALSE]

Seen(g) == [nodes |-> g.nodes, edges |-> Edges(g)]

\* return graph
Return(g) == [kind |-> "graph", err |-> "", graph |-> Seen(g)]

ThrowKeepsGraph(err, g) == [kind |-> "error", err |-> err, graph |-> Seen(g)]

\* an exception leaves getPackageGraph: nothing catches it, and the graph
\* built so far stays behind in a local variable
Throw(err, g) == [kind |-> "error", err |-> err, graph |-> NoGraph]

FromLocalsNever(l, depName) == FALSE

\* depName in locals
FromLocals(l, depName) == depName \in DOMAIN l.data

DepStepEdgeFirst(g, l, reg, name, depName) ==
  LET e == addDependency(g, l.data[name].name, depName) IN
  IF e.threw
    THEN [threw |-> "NodeDoesNotExist", graph |-> g, req |-> NoReq]
    ELSE [threw |-> "", graph |-> e.graph, req |-> NoReq]

\* the body of Object.keys(deps).forEach(depName => ...)
DepStep(g, l, reg, name, depName) ==
  LET data == l.data[name]
      fromRegistry == ~hasNode(g, depName) /\ ~FromLocals(l, depName)
      r == IF fromRegistry THEN requirePackage(reg, name, depName) ELSE Thrown
      q == IF fromRegistry
             THEN [called |-> TRUE, parent |-> name, module |-> depName,
                   threw |-> r.threw]
             ELSE NoReq
      g1 == IF hasNode(g, depName) THEN g
            ELSE IF FromLocals(l, depName)
              THEN addNode(g, depName, l.data[depName])
            ELSE addNode(g, depName, r.exports)
      e == addDependency(g1, data.name, depName)
  IN IF fromRegistry /\ r.threw
       THEN [threw |-> "UnresolvedDependency", graph |-> g, req |-> q]
     ELSE IF e.threw
       THEN [threw |-> "NodeDoesNotExist", graph |-> g1, req |-> q]
     ELSE [threw |-> "", graph |-> e.graph, req |-> q]

StartCall ==
  /\ pc = "idle"
  /\ calls < MaxCalls
  /\ calls' = calls + 1
  /\ LET r == getLernaPaths(cache, disk) IN
       /\ cache' = r.cache
       /\ IF r.kind = "ok"
            THEN /\ pc' = "gather"
                 /\ paths' = r.paths \o MockPaths
                 /\ UNCHANGED <<result, prev>>
            ELSE /\ pc' = "idle"
                 /\ paths' = <<>>
                 /\ result' = Throw(r.kind, NewGraph)
                 /\ prev' = result
  /\ locals' = NoLocals
  /\ graph' = NewGraph
  /\ cur' = 0
  /\ todo' = {}
  /\ req' = NoReq
  /\ UNCHANGED <<disk, registry>>
  /\ UNCHANGED jvars

Gather ==
  /\ pc = "gather"
  /\ locals' = GatherLocals(disk, paths, NoLocals)
  /\ graph' = NewGraph
  /\ cur' = 1
  /\ pc' = "build"
  /\ UNCHANGED <<disk, cache, registry, calls, paths, todo, req, result, prev>>
  /\ UNCHANGED jvars

AddLocalNode ==
  /\ pc = "build"
  /\ cur <= Len(locals.keys)
  /\ LET name == locals.keys[cur] IN
       /\ graph' = addNode(graph, name, locals.data[name])
       /\ todo' = locals.data[name].deps
  /\ pc' = "deps"
  /\ UNCHANGED <<disk, cache, registry, calls, paths, locals, cur, req,
                 result, prev>>
  /\ UNCHANGED jvars

ProcessDep ==
  /\ pc = "deps"
  /\ \E depName \in todo :
       LET name == locals.keys[cur] IN
       \E reg \in IF ~hasNode(graph, depName) /\ ~FromLocals(locals, depName)
                    THEN Inspect(registry, name, depName) ELSE {registry} :
         LET s == DepStep(graph, locals, reg, name, depName) IN
           /\ registry' = reg
           /\ req' = IF s.req.called THEN s.req ELSE req
           /\ graph' = s.graph
           /\ IF s.threw = ""
                THEN /\ todo' = todo \ {depName}
                     /\ UNCHANGED <<pc, result, prev>>
                ELSE /\ todo' = todo
                     /\ pc' = "idle"
                     /\ result' = Throw(s.threw, s.graph)
                     /\ prev' = result
  /\ UNCHANGED <<disk, cache, calls, paths, locals, cur>>
  /\ UNCHANGED jvars

NextPackage ==
  /\ pc = "deps"
  /\ todo = {}
  /\ cur' = cur + 1
  /\ pc' = "build"
  /\ UNCHANGED <<disk, cache, registry, calls, paths, locals, graph, todo,
                 req, result, prev>>
  /\ UNCHANGED jvars

Finish ==
  /\ pc = "build"
  /\ cur > Len(locals.keys)
  /\ result' = Return(graph)
  /\ prev' = result
  /\ pc' = "idle"
  /\ UNCHANGED <<disk, cache, registry, calls, paths, locals, graph, cur,
                 todo, req>>
  /\ UNCHANGED jvars

\* the JSON helpers are not in use
JIdle ==
  /\ jfile = NoFile
  /\ jdata = EmptyObject
  /\ jrets = <<>>
  /\ jwrites = 0
  /\ jread = [done |-> FALSE, threw |-> FALSE, value |-> Null]

\* The file systems getPackageGraph is run on: the base manifest declares
\* the workspace packages/*, or cannot be used at all.
Workspace == [st |-> "ok", ws |-> "array", globs |-> <<"packages/*">>]

Unreadable == {NoManifest("absent"), NoManifest("malformed")}

GraphDisks ==
  {[base |-> Workspace, lerna |-> NoDecl("absent"),
    manifest |-> [p \in PkgPaths |->
       IF p = "packages/a" THEN a
       ELSE IF p = MockPaths[1] THEN m1
       ELSE IF p = MockPaths[2] THEN m2
       ELSE NoManifest("nodir")]] :
     a \in Unreadable \cup Manifests,
     m1 \in {NoManifest("absent")} \cup Manifests,
     m2 \in {NoManifest("absent")} \cup Manifests}
  \cup
  {[base |-> b, lerna |-> NoDecl("absent"),
    manifest |-> [p \in PkgPaths |-> NoManifest("nodir")]] :
     b \in {NoDecl("absent"), NoDecl("malformed"), NoDecl("ok")}}

Init ==
  /\ disk \in GraphDisks
  /\ cache = EmptyMap
  /\ registry = NothingKnown
  /\ calls = 0
  /\ pc = "idle"
  /\ paths = <<>>
  /\ locals = NoLocals
  /\ graph = NewGraph
  /\ cur = 0
  /\ todo = {}
  /\ req = NoReq
  /\ result = NoResult
  /\ prev = NoResult
  /\ JIdle

Next ==
  \/ StartCall
  \/ Gather
  \/ AddLocalNode
  \/ ProcessDep
  \/ NextPackage
  \/ Finish

Spec == Init /\ [][Next]_vars

---------------------------------------------------------------------------
(* getLernaPaths on its own                                                *)

LernaEntries ==
  {NoManifest("nodir"), NoManifest("notdir"), NoManifest("absent"),
   NoManifest("malformed"), [st |-> "ok", name |-> "A", deps |-> {}]}

LernaDisks ==
  {[base |-> b, lerna |-> l,
    manifest |-> [p \in PkgPaths |->
       IF p = "packages/a" THEN ea
       ELSE IF p = "packages/b" THEN eb
       ELSE NoManifest("nodir")]] :
     b \in BaseStates, l \in LernaStates,
     ea \in LernaEntries, eb \in LernaEntries}

\* the paths getLernaPaths returned
Listed(ps) == [kind |-> "paths", err |-> "", graph |-> NoGraph]

LernaCall ==
  /\ pc = "idle"
  /\ calls < MaxCalls
  /\ calls' = calls + 1
  /\ LET r == getLernaPaths(cache, disk) IN
       /\ cache' = r.cache
       /\ paths' = r.paths
       /\ result' = IF r.kind = "ok" THEN Listed(r.paths)
                    ELSE Throw(r.kind, NewGraph)
  /\ prev' = result
  /\ UNCHANGED <<disk, registry, pc, locals, graph, cur, todo, req>>
  /\ UNCHANGED jvars

InitLerna ==
  /\ disk \in LernaDisks
  /\ cache = EmptyMap
  /\ registry = NothingKnown
  /\ calls = 0
  /\ pc = "idle"
  /\ paths = <<>>
  /\ locals = NoLocals
  /\ graph = NewGraph
  /\ cur = 0
  /\ todo = {}
  /\ req = NoReq
  /\ result = NoResult
  /\ prev = NoResult
  /\ JIdle

NextLerna == LernaCall

SpecLerna == InitLerna /\ [][NextLerna]_vars

---------------------------------------------------------------------------
(* What the file system says, read off without running the builder.        *)

Readable(p) == disk.manifest[p].st = "ok"

\* the names of the manifests that can be read, among the paths scanned
ReadableNames == {disk.manifest[paths[i]].name : i \in {j \in DOMAIN paths : Readable(paths[j])}}

\* the last path scanned whose manifest has the name n
LastPathOf(n) ==
  paths[CHOOSE i \in DOMAIN paths :
          /\ Readable(paths[i]) /\ disk.manifest[paths[i]].name = n
          /\ \A j \in DOMAIN paths :
               (Readable(paths[j]) /\ disk.manifest[paths[j]].name = n) => j <= i]

LocalManifest(n) ==
  Payload(n, disk.manifest[LastPathOf(n)].deps, "local", LastPathOf(n))

\* the pairs (local package, dependency it declares)
Declared ==
  UNION {{<<n, d>> : d \in LocalManifest(n).deps} : n \in ReadableNames}

Returned == pc = "idle" /\ result.kind = "graph"

---------------------------------------------------------------------------
(* Claims about getPackageGraph                                            *)

\* C1: when every declared dependency resolves, getPackageGraph returns a
\* graph whose nodes are exactly the local package names and the names the
\* local manifests declare as dependencies, and whose edges are exactly the
\* pairs (local package, declared dependency); what an installed package
\* depends on adds nothing.  Without an unresolvable dependency a workspace
\* always gets its graph.
C1_GraphIsLocalsAndDeclaredDependencies ==
  /\ Returned =>
       /\ DOMAIN result.graph.nodes = ReadableNames \cup {e[2] : e \in Declared}
       /\ result.graph.edges = Declared
  /\ (pc = "idle" /\ calls > 0 /\ disk.base = Workspace /\ ~req.threw)
       => result.kind = "graph"

C1_Witness ==
  /\ Returned
  /\ DOMAIN result.graph.nodes = {"A", "B", "X"}
  /\ result.graph.edges = {<<"A", "B">>, <<"A", "X">>}
  /\ result.graph.nodes["X"].deps = {"Z"}

\* some parent that declares d resolves it
Resolvable(d) ==
  \E e \in Declared : e[2] = d /\ ~requirePackage(registry, e[1], d).threw

\* C2: a dependency that is not local and that no declaring package can
\* resolve ends getPackageGraph with an error; the caller gets no graph,
\* however much of it had been built.
C2_UnresolvedDependencyGivesNoGraph ==
  /\ (req.called /\ req.threw) => (pc = "idle" /\ result.kind = "error")
  /\ result.kind = "error" => result.graph = NoGraph
  /\ Returned =>
       \A e \in Declared : e[2] \notin ReadableNames => Resolvable(e[2])

C2_Witness ==
  /\ pc = "idle"
  /\ result.kind = "error"
  /\ result.err = "UnresolvedDependency"
  /\ Cardinality(Nodes(graph)) >= 2
  /\ Edges(graph) # {}

\* C3: a path whose manifest cannot be read is skipped: locals holds exactly
\* the readable manifests (for each name the last one read), wherever the
\* unreadable paths stand in the list, and every readable name is a node of
\* the graph returned.
C3_UnreadableManifestIsSkipped ==
  /\ pc # "gather" =>
       /\ DOMAIN locals.data = ReadableNames
       /\ Range(locals.keys) = ReadableNames
       /\ \A n \in ReadableNames : locals.data[n] = LocalManifest(n)
  /\ Returned => ReadableNames \subseteq DOMAIN result.graph.nodes

C3_Witness ==
  /\ Returned
  /\ Len(paths) = 3
  /\ ~Readable(paths[1])
  /\ Readable(paths[2])
  /\ ~Readable(paths[3])
  /\ DOMAIN result.graph.nodes # {}

\* C7: a second invocation on the unchanged file system gives its caller what
\* the first gave: the same nodes with the same payloads and the same edges,
\* or the same error.
C7_SecondInvocationGivesTheSame ==
  (pc = "idle" /\ calls >= 2) =>
     /\ result.kind = prev.kind
     /\ result.err = prev.err
     /\ result.graph.nodes = prev.graph.nodes
     /\ result.graph.edges = prev.graph.edges

C7_Witness ==
  /\ pc = "idle"
  /\ calls = 2
  /\ result.kind = "graph"
  /\ prev.kind = "graph"
  /\ "X" \in DOMAIN result.graph.nodes
  /\ result.graph.edges # {}

RelFails(p, m) == registry.parent[p] # "ok" \/ registry.rel[<<p, m>>] # "ok"

\* C8 as stated: requirePackage throws only if both the resolution relative
\* to the declaring package and the resolution by name fail.
C8_ThrowsOnlyIfBothResolutionsFail ==
  req.called =>
    (req.threw <=>
       (RelFails(req.parent, req.module) /\ registry.top[req.module] # "ok"))

\* C8, amended: requirePackage falls back to the resolution by name only
\* when the declaring package itself cannot be resolved.  It throws when the
\* declaring package cannot be resolved and the resolution by name fails,
\* and also when the declaring package resolves but the dependency does not
\* resolve from it, whatever the resolution by name would give.
C8_FallbackOnlyForUnresolvedParent ==
  req.called =>
    /\ req.threw <=>
         \/ /\ registry.parent[req.parent] = "fail"
            /\ registry.top[req.module] = "fail"
         \/ /\ registry.parent[req.parent] = "ok"
            /\ registry.rel[<<req.parent, req.module>>] = "fail"
    /\ (~req.threw /\ hasNode(graph, req.module)) =>
         graph.nodes[req.module].via =
           (IF registry.parent[req.parent] = "fail" THEN "top" ELSE "rel")

C8_Witness ==
  /\ req.called
  /\ ~req.threw
  /\ registry.parent[req.parent] = "fail"
  /\ hasNode(graph, req.module)
  /\ graph.nodes[req.module].via = "top"

NoDuplicates(s) == \A i, j \in DOMAIN s : s[i] = s[j] => i = j

WellFormed(g) ==
  /\ DOMAIN g.out = DOMAIN g.nodes
  /\ \A e \in Edges(g) :
       /\ e[1] \in Nodes(g)
       /\ e[2] \in Nodes(g)
       /\ e[1] \in ReadableNames
  /\ \A f \in DOMAIN g.out : NoDuplicates(g.out[f])

\* C9: an edge is only ever added between two nodes the graph already has
\* (addDependency never throws), so in every intermediate and final graph
\* the endpoints of an edge are nodes, its source is a local package and no
\* pair occurs twice.
C9_EdgesJoinExistingNodes ==
  /\ WellFormed(graph)
  /\ Returned => result.graph = Seen(graph)
  /\ result.err # "NodeDoesNotExist"

C9_Witness ==
  /\ pc = "deps"
  /\ todo # {}
  /\ Cardinality(Edges(graph)) >= 2

\* C10: a node named like a local package carries that package's local
\* manifest (the last one read with the name), whether the node was made
\* for a dependency or for the package itself; every node's payload is the
\* manifest of its own name; requirePackage is only asked for names that are
\* not local.
C10_LocalNodesCarryLocalManifests ==
  /\ \A n \in Nodes(graph) :
       /\ graph.nodes[n].name = n
       /\ n \in ReadableNames => graph.nodes[n] = LocalManifest(n)
  /\ req.called => req.module \notin ReadableNames

C10_Witness ==
  /\ Returned
  /\ locals.keys = <<"A", "B">>
  /\ <<"A", "B">> \in result.graph.edges
  /\ disk.manifest[MockPaths[1]].name = "B"
  /\ result.graph.nodes["B"].at = MockPaths[2]

---------------------------------------------------------------------------
(* Claims about getLernaPaths                                              *)

\* C5: getLernaPaths fails with the configuration error, and returns no
\* paths, when the base manifest is missing and when it has no workspaces
\* field and there is no lerna.json.
C5_NoPackageListIsConfigurationError ==
  (/\ calls > 0
   /\ \/ disk.base.st = "absent"
      \/ disk.base.st = "ok" /\ disk.base.ws = "none" /\ disk.lerna.st = "absent")
  => (result.kind = "error" /\ result.err = "ConfigurationError" /\ paths = <<>>)

C5_Witness ==
  /\ calls > 0
  /\ disk.base.st = "ok"
  /\ disk.base.ws = "none"
  /\ disk.lerna.st = "absent"
  /\ disk.manifest["packages/a"].st = "ok"
  /\ result.err = "ConfigurationError"

\* C6: with workspace globs declared in the base manifest, as an array or
\* as the packages array of an object, getLernaPaths returns exactly the
\* paths that match one of the globs and hold a package.json, and lerna.json
\* is never loaded.
C6_WorkspaceGlobsGiveManifestDirectories ==
  (calls > 0 /\ disk.base.st = "ok" /\ disk.base.ws \in {"array", "object"})
  => /\ result.kind = "paths"
     /\ Range(paths) =
          {p \in Range(Candidates) :
             /\ \E i \in DOMAIN disk.base.globs : Matches(disk.base.globs[i], p)
             /\ disk.manifest[p].st \in {"malformed", "ok"}}
     /\ "lerna.json" \notin DOMAIN cache

C6_Witness ==
  /\ calls > 0
  /\ disk.base.ws = "object"
  /\ disk.base.globs = <<"packages/*">>
  /\ disk.lerna.st = "malformed"
  /\ disk.manifest["packages/a"].st = "ok"
  /\ disk.manifest["packages/b"].st = "absent"
  /\ paths = <<"packages/a">>

---------------------------------------------------------------------------
(* writeJSONFile followed by readJSONFile or by writeJSONFile again        *)

Malformed ==
  {<<>>, <<"{">>, <<"{", "a", ":", "1", ",", "}">>, <<"1", "1">>,
   <<"[", "null">>}

\* the target file before the first write: absent, unreadable, or holding
\* the text of a JSON value
InitialFiles ==
  {NoFile} \cup {File(t) : t \in Malformed}
           \cup {File(TextOf(v)) : v \in FlatValues}

NoDisk ==
  [base |-> NoDecl("absent"), lerna |-> NoDecl("absent"),
   manifest |-> [p \in PkgPaths |-> NoManifest("nodir")]]

JWrite ==
  /\ Len(jrets) < MaxWrites
  /\ LET w == writeJSONFile(jfile, jdata) IN
       /\ jfile' = w.file
       /\ jrets' = Append(jrets, w.ret)
       /\ jwrites' = jwrites + w.wrote
  /\ UNCHANGED <<jdata, jread>>
  /\ UNCHANGED gvars

JRead ==
  /\ Len(jrets) >= 1
  /\ ~jread.done
  /\ jread' = [done |-> TRUE, threw |-> readJSONFile(jfile).threw,
               value |-> readJSONFile(jfile).value]
  /\ UNCHANGED <<jfile, jdata, jrets, jwrites>>
  /\ UNCHANGED gvars

InitJSON ==
  /\ disk = NoDisk
  /\ cache = EmptyMap
  /\ registry = NothingKnown
  /\ calls = 0
  /\ pc = "idle"
  /\ paths = <<>>
  /\ locals = NoLocals
  /\ graph = NewGraph
  /\ cur = 0
  /\ todo = {}
  /\ req = NoReq
  /\ result = NoResult
  /\ prev = NoResult
  /\ jfile \in InitialFiles
  /\ jdata \in JSONObjects
  /\ jrets = <<>>
  /\ jwrites = 0
  /\ jread = [done |-> FALSE, threw |-> FALSE, value |-> Null]

NextJSON ==
  \/ JWrite
  \/ JRead

SpecJSON == InitJSON /\ [][NextJSON]_vars

---------------------------------------------------------------------------
(* Claims about the JSON helpers                                           *)

\* the value a JSON value stands for: an object is its set of members
RECURSIVE Meaning(_)
Meaning(v) ==
  [t |-> v.t, v |-> v.v,
   items |-> [i \in DOMAIN v.items |->
                IF v.t = "arr" THEN Meaning(v.items[i]) ELSE Meaning(Null)],
   members |-> IF v.t = "obj"
                 THEN {<<v.keys[i], Meaning(v.items[i])>> : i \in DOMAIN v.keys}
                 ELSE {}]

\* C4: whatever the target file held, readJSONFile after writeJSONFile(data)
\* gives a value deep-equal to data, and a writeJSONFile(data) that follows
\* another writes nothing and returns false.
C4_RoundTripAndSecondWriteNoOp ==
  /\ jread.done => (~jread.threw /\ Meaning(jread.value) = Meaning(jdata))
  /\ \A i \in DOMAIN jrets : i >= 2 => ~jrets[i]
  /\ jwrites <= 1

\* where C4 fails: only for the empty object written over a file that is
\* absent or unreadable, which is then left as it was
C4_FailsOnlyForEmptyObject ==
  /\ (jread.done /\ (jread.threw \/ Meaning(jread.value) # Meaning(jdata)))
       => (jdata = EmptyObject /\ jwrites = 0 /\ readJSONFile(jfile).threw)
  /\ \A i \in DOMAIN jrets : i >= 2 => ~jrets[i]
  /\ jwrites <= 1

====
